---- MODULE Spec2Model ----
(***************************************************************************)
(* Model of src/bin/no1.rs: the symbolic rewrite engine                    *)
(* (Configuration::run), the textual notation (Display, raw_parse, parse,  *)
(* Configuration::from_str) and the callers that drive them.               *)
(***************************************************************************)
EXTENDS Integers, Sequences, FiniteSets, TLC

(***************************************************************************)
(* enum Item.  Every item is a record of the same shape so that items of   *)
(* different variants can be compared: k is the variant, a and b are its   *)
(* payload (0 when the variant has none).                                  *)
(***************************************************************************)
D == [k |-> "D", a |-> 0, b |-> 0]

P == [k |-> "P", a |-> 0, b |-> 0]

C(c) == [k |-> "C", a |-> c, b |-> 0]

X(exp) == [k |-> "X", a |-> exp, b |-> 0]

L(r) == [k |-> "L", a |-> r, b |-> 0]

E(block, exp) == [k |-> "E", a |-> block, b |-> exp]

ItemUnreachable == [k |-> "Unreachable", a |-> 0, b |-> 0]

\* enum Direction
Left == "Left"

Right == "Right"

\* struct Configuration
Conf(lt, rt, d, n) == [ltape |-> lt, rtape |-> rt, dir |-> d, sim_step |-> n]

\* Configuration::new(): `C1 > P` at step 0
New == Conf(<<C(1)>>, <<P>>, Right, 0)

(***************************************************************************)
(* Slice helpers: Vec::last, Vec::pop, Vec::truncate, slice::ends_with and *)
(* the `[.., a, b]` slice patterns of the match in Configuration::run.     *)
(***************************************************************************)
NoItem == [k |-> "none", a |-> 0, b |-> 0]

\* the i-th item from the end of the tape (1 = head-adjacent), NoItem if absent
At(tape, i) == IF Len(tape) >= i THEN tape[Len(tape) + 1 - i] ELSE NoItem

\* tape.truncate(tape.len() - n)
Truncate(tape, n) == SubSeq(tape, 1, Len(tape) - n)

\* tape.ends_with(suffix)
EndsWith(tape, suffix) ==
    /\ Len(tape) >= Len(suffix)
    /\ SubSeq(tape, Len(tape) - Len(suffix) + 1, Len(tape)) = suffix

IsX(item) == item.k = "X"

\* fn push_or_merge_x
push_or_merge_x(tape, new_exp) ==
    IF IsX(At(tape, 1))
    THEN Append(Truncate(tape, 1), X(At(tape, 1).a + new_exp))
    ELSE Append(tape, X(new_exp))

\* macro pop_x_truncate: the X item sits `extra` items below the end of the
\* tape; decrement it, drop it when it reaches 0, and drop the `extra` items
\* above it (the two-argument form is extra = 0).
PopXTruncateKeepsZero(tape, extra) ==
    Append(Truncate(tape, extra + 1), X(At(tape, extra + 1).a - 1))

pop_x_truncate(tape, extra) ==
    LET exp == At(tape, extra + 1).a - 1
    IN  IF exp = 0
        THEN Truncate(tape, extra + 1)
        ELSE Append(Truncate(tape, extra + 1), X(exp))

(***************************************************************************)
(* The arms of the match in Configuration::run, in source order.  Each     *)
(* Rule... operator is the body of one arm: it maps the configuration to   *)
(* the configuration after the arm (sim_step is advanced by the loop, not  *)
(* by the arm).  c.ltape and c.rtape keep the head-adjacent item last.     *)
(***************************************************************************)

\* `end < 3x` -> `1 > DP`
RuleEndLeft3x(c) ==
    [c EXCEPT !.rtape = pop_x_truncate(c.rtape, 1) \o <<P, D>>,
              !.ltape = Append(c.ltape, C(1)),
              !.dir = Right]

\* `x > end` -> `< 3xP`
RuleXRightEnd(c) ==
    [c EXCEPT !.ltape = pop_x_truncate(c.ltape, 0),
              !.rtape = c.rtape \o <<P, X(1), C(3)>>,
              !.dir = Left]

\* `D > end` -> `< x`
RuleDRightEnd(c) ==
    [c EXCEPT !.ltape = Truncate(c.ltape, 1),
              !.rtape = Append(c.rtape, X(1)),
              !.dir = Left]

\* `> D33` -> `P0 >`
RuleRightD33AsD3(c) ==
    [c EXCEPT !.rtape = Truncate(c.rtape, 2),
              !.ltape = Append(push_or_merge_x(c.ltape, 1), P)]

RuleRightD33(c) ==
    [c EXCEPT !.rtape = Truncate(c.rtape, 3),
              !.ltape = c.ltape \o <<P, C(0)>>]

\* `> D3` -> `xP >`
RuleRightD3(c) ==
    [c EXCEPT !.rtape = Truncate(c.rtape, 2),
              !.ltape = Append(push_or_merge_x(c.ltape, 1), P)]

\* `(x | D | P | 3) <` -> `< (x | D | P | 3)`
RulePassLeft(c) ==
    [c EXCEPT !.ltape = Truncate(c.ltape, 1),
              !.rtape = Append(c.rtape, At(c.ltape, 1))]

\* `0 <` -> `1x >` | `1 <` -> `2 >` | `2 <` -> `3x >`   (c: u8)
RuleCounterAlwaysRun(c) ==
    LET n == (At(c.ltape, 1).a + 1) % 256
    IN  [c EXCEPT !.ltape = Truncate(c.ltape, 1) \o <<C(n), X(1)>>,
                  !.dir = Right]

RuleCounter(c) ==
    LET n == (At(c.ltape, 1).a + 1) % 256
        bumped == Append(Truncate(c.ltape, 1), C(n))
    IN  [c EXCEPT !.ltape = IF n # 2 THEN Append(bumped, X(1)) ELSE bumped,
                  !.dir = Right]

\* the motif of block 0/a and the exponent that triggers its compaction
MotifA == <<C(2), X(7640), D, X(10344)>>

\* fold the motif at the end of the tape into a Block of the given id
CompactAlwaysNew(tape, motif, block) ==
    Append(Truncate(tape, Len(motif)), E(block, 1))

Compact(tape, motif, block) ==
    LET rest == Truncate(tape, Len(motif))
    IN  IF At(rest, 1).k = "E" /\ At(rest, 1).a = block
        THEN Append(Truncate(rest, 1), E(block, At(rest, 1).b + 1))
        ELSE Append(rest, E(block, 1))

\* `x > 3` -> `0 >`, with the compaction of block a
RuleXRight3(c) ==
    LET test_a == At(c.ltape, 1).a = 10345
        popped == pop_x_truncate(c.ltape, 0)
        folded == IF test_a /\ EndsWith(popped, MotifA)
                  THEN Compact(popped, MotifA, 0)
                  ELSE popped
    IN  [c EXCEPT !.ltape = Append(folded, C(0)),
                  !.rtape = Truncate(c.rtape, 1)]

\* `0 > 3` -> `L(2332) >`
Rule0Right3(c) ==
    [c EXCEPT !.ltape = Append(Truncate(c.ltape, 1), L(2332)),
              !.rtape = Truncate(c.rtape, 1)]

\* `L(2332) <` -> `L(2301) x >`
RuleL2332(c) ==
    [c EXCEPT !.ltape = Truncate(c.ltape, 1) \o <<L(2301), X(1)>>,
              !.dir = Right]

\* `L(2301) <` -> `L(252) >`
RuleL2301(c) ==
    [c EXCEPT !.ltape = Append(Truncate(c.ltape, 1), L(252)),
              !.dir = Right]

\* `L(252) <` -> `PDx >`
RuleL252(c) ==
    [c EXCEPT !.ltape = Truncate(c.ltape, 1) \o <<P, D, X(1)>>,
              !.dir = Right]

\* `> PD3x` -> `L(2301) D > P`
RuleRightPD3x(c) ==
    [c EXCEPT !.rtape = Append(pop_x_truncate(c.rtape, 3), P),
              !.ltape = c.ltape \o <<L(2301), D>>]

\* `> PDDx` -> `21D >`
RuleRightPDDx(c) ==
    [c EXCEPT !.rtape = pop_x_truncate(c.rtape, 3),
              !.ltape = c.ltape \o <<C(2), C(1), D>>]

\* `2 > 3` -> `L(432) >`
Rule2Right3(c) ==
    [c EXCEPT !.ltape = Append(Truncate(c.ltape, 1), L(432)),
              !.rtape = Truncate(c.rtape, 1)]

\* `L(432) <` -> `L(401) x >`
RuleL432(c) ==
    [c EXCEPT !.ltape = Truncate(c.ltape, 1) \o <<L(401), X(1)>>,
              !.dir = Right]

\* `L(401) <` -> `L(62) >`
RuleL401TwoLinks(c) ==
    [c EXCEPT !.ltape = Truncate(c.ltape, 1) \o <<L(31), X(1)>>,
              !.dir = Right]

RuleL401(c) ==
    [c EXCEPT !.ltape = Append(Truncate(c.ltape, 1), L(62)),
              !.dir = Right]

\* `L(62) <` -> `L(31) x >`
RuleL62(c) ==
    [c EXCEPT !.ltape = Truncate(c.ltape, 1) \o <<L(31), X(1)>>,
              !.dir = Right]

\* `x L(31) <` -> `P1D >`
RuleXL31(c) ==
    [c EXCEPT !.ltape = pop_x_truncate(c.ltape, 1) \o <<P, C(1), D>>,
              !.dir = Right]

\* `> P x^n` -> `x^n > P`
RuleRightPXNoMerge(c) ==
    [c EXCEPT !.ltape = Append(c.ltape, At(c.rtape, 2)),
              !.rtape = Append(Truncate(c.rtape, 2), P)]

RuleRightPX(c) ==
    [c EXCEPT !.ltape = push_or_merge_x(c.ltape, At(c.rtape, 2).a),
              !.rtape = Append(Truncate(c.rtape, 2), P)]

\* `> PDP` -> `1D >`
RuleRightPDP(c) ==
    [c EXCEPT !.rtape = Truncate(c.rtape, 3),
              !.ltape = c.ltape \o <<C(1), D>>]

\* `> PDx` -> `1D > P`
RuleRightPDx(c) ==
    [c EXCEPT !.rtape = Append(pop_x_truncate(c.rtape, 2), P),
              !.ltape = c.ltape \o <<C(1), D>>]

\* `> P3x` -> `< PDP`
RuleRightP3x(c) ==
    [c EXCEPT !.rtape = pop_x_truncate(c.rtape, 2) \o <<P, D, P>>,
              !.dir = Left]

\* `> P end` -> `< P`
RuleRightPEnd(c) == [c EXCEPT !.dir = Left]

\* `> PP` -> `x >`
RuleRightPP(c) ==
    [c EXCEPT !.rtape = Truncate(c.rtape, 2),
              !.ltape = push_or_merge_x(c.ltape, 1)]

\* `> D` -> `D >`
RuleRightD(c) ==
    [c EXCEPT !.rtape = Truncate(c.rtape, 1),
              !.ltape = Append(c.ltape, D)]

\* the motif of block 1/b
MotifB ==
    <<D, X(72142), D, X(3076), D, X(1538), D, X(300), D, X(30826)>>

\* `> x` -> `x >`, with the compaction of block b
RuleRightX(c) ==
    LET test_b == At(c.rtape, 1).a = 30826
        merged == push_or_merge_x(c.ltape, At(c.rtape, 1).a)
    IN  [c EXCEPT !.ltape = IF test_b /\ EndsWith(merged, MotifB)
                            THEN Compact(merged, MotifB, 1)
                            ELSE merged,
                  !.rtape = Truncate(c.rtape, 1)]

\* `> b` -> `b >`
RuleRightB(c) ==
    LET move_exp == At(c.rtape, 1).b
        last == At(c.ltape, 1)
    IN  [c EXCEPT !.ltape = IF last.k = "E" /\ last.a = 1
                            THEN Append(Truncate(c.ltape, 1),
                                        E(1, last.b + move_exp))
                            ELSE Append(c.ltape, E(1, move_exp)),
                  !.rtape = Truncate(c.rtape, 1)]

\* `b <` -> `< b`
RuleBLeft(c) ==
    [c EXCEPT !.rtape = Append(c.rtape, E(1, At(c.ltape, 1).b)),
              !.ltape = Truncate(c.ltape, 1)]

\* the literal expansion of one repetition of block 2/c
ExpandedC ==
    <<C(1), D, X(72141), C(1), D, X(3075), C(1), D, X(1537),
      C(1), D, X(299), C(1), D, X(30825)>>

\* `c^n <` -> `c^(n-1) expanded-c <`
RuleCLeftKeepsBlock(c) ==
    LET exp == At(c.ltape, 1).b - 1
    IN  [c EXCEPT !.ltape = Append(Truncate(c.ltape, 1), E(2, exp)) \o ExpandedC]

RuleCLeft(c) ==
    LET exp == At(c.ltape, 1).b - 1
        kept == IF exp = 0
                THEN Truncate(c.ltape, 1)
                ELSE Append(Truncate(c.ltape, 1), E(2, exp))
    IN  [c EXCEPT !.ltape = kept \o ExpandedC]

\* `> P b` -> `c > P`
RuleRightPB(c) ==
    [c EXCEPT !.ltape = Append(c.ltape, E(2, At(c.rtape, 2).b)),
              !.rtape = Truncate(c.rtape, 2)]

(***************************************************************************)
(* The match of Configuration::run: the first arm whose pattern matches    *)
(* (dir, ltape, rtape) decides the step.  Arm gives the name of that arm.  *)
(***************************************************************************)
IsC3(item) == item = C(3)

\* the pattern `(Left, [.., Unreachable], _) | (Right, _, [.., Unreachable])`
MatchUnreachableLeftOnly(c) ==
    c.dir = Left /\ At(c.ltape, 1) = ItemUnreachable

MatchUnreachable(c) ==
    \/ (c.dir = Left /\ At(c.ltape, 1) = ItemUnreachable)
    \/ (c.dir = Right /\ At(c.rtape, 1) = ItemUnreachable)

IsB(item) == item.k = "E" /\ item.a = 1

Arm(c) ==
    LET d == c.dir
        l1 == At(c.ltape, 1)
        l2 == At(c.ltape, 2)
        r1 == At(c.rtape, 1)
        r2 == At(c.rtape, 2)
        r3 == At(c.rtape, 3)
        r4 == At(c.rtape, 4)
    IN  IF d = Left /\ c.ltape = <<>> /\ IsC3(r1) /\ IsX(r2) THEN "EndLeft3x"
        ELSE IF d = Right /\ IsX(l1) /\ c.rtape = <<>> THEN "XRightEnd"
        ELSE IF d = Right /\ l1 = D /\ c.rtape = <<>> THEN "DRightEnd"
        ELSE IF d = Right /\ r1 = D /\ IsC3(r2) /\ IsC3(r3) THEN "RightD33"
        ELSE IF d = Right /\ r1 = D /\ IsC3(r2) THEN "RightD3"
        ELSE IF d = Left /\ (IsX(l1) \/ l1 = D \/ l1 = P \/ IsC3(l1))
            THEN "PassLeft"
        ELSE IF d = Left /\ l1.k = "C" THEN "Counter"
        ELSE IF d = Right /\ IsX(l1) /\ IsC3(r1) THEN "XRight3"
        ELSE IF d = Right /\ l1 = C(0) /\ IsC3(r1) THEN "0Right3"
        ELSE IF d = Left /\ l1 = L(2332) THEN "L2332"
        ELSE IF d = Left /\ l1 = L(2301) THEN "L2301"
        ELSE IF d = Left /\ l1 = L(252) THEN "L252"
        ELSE IF d = Right /\ r1 = P /\ r2 = D /\ IsC3(r3) /\ IsX(r4)
            THEN "RightPD3x"
        ELSE IF d = Right /\ r1 = P /\ r2 = D /\ r3 = D /\ IsX(r4)
            THEN "RightPDDx"
        ELSE IF d = Right /\ l1 = C(2) /\ IsC3(r1) THEN "2Right3"
        ELSE IF d = Left /\ l1 = L(432) THEN "L432"
        ELSE IF d = Left /\ l1 = L(401) THEN "L401"
        ELSE IF d = Left /\ l1 = L(62) THEN "L62"
        ELSE IF d = Left /\ l1 = L(31) /\ IsX(l2) THEN "XL31"
        ELSE IF d = Right /\ r1 = P /\ IsX(r2) THEN "RightPX"
        ELSE IF d = Right /\ r1 = P /\ r2 = D /\ r3 = P THEN "RightPDP"
        ELSE IF d = Right /\ r1 = P /\ r2 = D /\ IsX(r3) THEN "RightPDx"
        ELSE IF d = Right /\ r1 = P /\ IsC3(r2) /\ IsX(r3) THEN "RightP3x"
        ELSE IF d = Right /\ c.rtape = <<P>> THEN "RightPEnd"
        ELSE IF d = Right /\ r1 = P /\ r2 = P THEN "RightPP"
        ELSE IF d = Right /\ r1 = D THEN "RightD"
        ELSE IF d = Right /\ IsX(r1) THEN "RightX"
        ELSE IF d = Right /\ IsB(r1) THEN "RightB"
        ELSE IF d = Left /\ IsB(l1) THEN "BLeft"
        ELSE IF d = Left /\ l1.k = "E" /\ l1.a = 2 THEN "CLeft"
        ELSE IF MatchUnreachable(c) THEN "Unreachable"
        ELSE IF d = Right /\ r1 = P /\ IsB(r2) THEN "RightPB"
        ELSE "UnknownTransition"

\* `return Err(Err::Unreachable)`: the arm changes nothing
RuleUnreachableHalf(c) == [c EXCEPT !.dir = IF c.dir = Left THEN Right ELSE Left]

RuleUnreachable(c) == c

\* `_ => return Err(Err::UnknownTransition)`: the arm changes nothing
RuleUnknownHalf(c) == [c EXCEPT !.ltape = Truncate(c.ltape, 1)]

RuleUnknown(c) == c

\* the configuration after the body of the matching arm
ApplyArm(c) ==
    LET arm == Arm(c)
    IN  CASE arm = "EndLeft3x" -> RuleEndLeft3x(c)
          [] arm = "XRightEnd" -> RuleXRightEnd(c)
          [] arm = "DRightEnd" -> RuleDRightEnd(c)
          [] arm = "RightD33" -> RuleRightD33(c)
          [] arm = "RightD3" -> RuleRightD3(c)
          [] arm = "PassLeft" -> RulePassLeft(c)
          [] arm = "Counter" -> RuleCounter(c)
          [] arm = "XRight3" -> RuleXRight3(c)
          [] arm = "0Right3" -> Rule0Right3(c)
          [] arm = "L2332" -> RuleL2332(c)
          [] arm = "L2301" -> RuleL2301(c)
          [] arm = "L252" -> RuleL252(c)
          [] arm = "RightPD3x" -> RuleRightPD3x(c)
          [] arm = "RightPDDx" -> RuleRightPDDx(c)
          [] arm = "2Right3" -> Rule2Right3(c)
          [] arm = "L432" -> RuleL432(c)
          [] arm = "L401" -> RuleL401(c)
          [] arm = "L62" -> RuleL62(c)
          [] arm = "XL31" -> RuleXL31(c)
          [] arm = "RightPX" -> RuleRightPX(c)
          [] arm = "RightPDP" -> RuleRightPDP(c)
          [] arm = "RightPDx" -> RuleRightPDx(c)
          [] arm = "RightP3x" -> RuleRightP3x(c)
          [] arm = "RightPEnd" -> RuleRightPEnd(c)
          [] arm = "RightPP" -> RuleRightPP(c)
          [] arm = "RightD" -> RuleRightD(c)
          [] arm = "RightX" -> RuleRightX(c)
          [] arm = "RightB" -> RuleRightB(c)
          [] arm = "BLeft" -> RuleBLeft(c)
          [] arm = "CLeft" -> RuleCLeft(c)
          [] arm = "RightPB" -> RuleRightPB(c)
          [] arm = "Unreachable" -> RuleUnreachable(c)
          [] OTHER -> RuleUnknown(c)

\* the arms that return Err(...) instead of falling through to the
\* `self.sim_step += 1` below the match
IsErrArm(arm) == arm \in {"Unreachable", "UnknownTransition"}

(***************************************************************************)
(* Text.  A text is a sequence of characters, each a one-character string  *)
(* (ESC stands for the escape byte 0x1b).                                  *)
(***************************************************************************)
ESC == "ESC"

DigitChars == <<"0", "1", "2", "3", "4", "5", "6", "7", "8", "9">>

LetterChars ==
    <<"a", "b", "c", "d", "e", "f", "g", "h", "i", "j", "k", "l", "m",
      "n", "o", "p", "q", "r", "s", "t", "u", "v", "w", "x", "y", "z">>

IsDigit(ch) == \E i \in 1..10 : DigitChars[i] = ch

\* `symbol as u8 - b'0'` for a digit
DigitVal(ch) == (CHOOSE i \in 1..10 : DigitChars[i] = ch) - 1

IsLetter(ch) == \E i \in 1..26 : LetterChars[i] = ch

\* `ch as u8 - b'a'` for a lower-case letter
LetterIndex(ch) == (CHOOSE i \in 1..26 : LetterChars[i] = ch) - 1

IsSpace(ch) == ch = " "

\* the largest value of u16, the type of the code of Item::L
U16Max == 65535

\* the decimal value of a string of digits, -1 if it is not one
RECURSIVE DigitsValue(_, _)
DigitsValue(s, acc) ==
    IF s = <<>> THEN acc
    ELSE IF ~IsDigit(Head(s)) THEN -1
    ELSE DigitsValue(Tail(s), acc * 10 + DigitVal(Head(s)))

\* str::parse::<usize>(): an optional `+`, then one or more digits; -1 stands
\* for Err.  (usize is 64 bits wide; every number of the texts modelled here
\* is far below its largest value, so the overflow Err does not arise.)
ParseUsize(s) ==
    LET body == IF s # <<>> /\ Head(s) = "+" THEN Tail(s) ELSE s
    IN  IF body = <<>> THEN -1 ELSE DigitsValue(body, 0)

\* str::parse::<u16>(): as above, and Err when the value does not fit
ParseU16(s) == IF ParseUsize(s) > U16Max THEN -1 ELSE ParseUsize(s)

\* `{}` of an unsigned integer
RECURSIVE ToDigits(_)
ToDigits(n) ==
    IF n < 10 THEN <<DigitChars[n + 1]>>
    ELSE Append(ToDigits(n \div 10), DigitChars[(n % 10) + 1])

\* str::split_whitespace
RECURSIVE SplitFrom(_, _, _)
SplitFrom(s, cur, acc) ==
    IF s = <<>> THEN (IF cur = <<>> THEN acc ELSE Append(acc, cur))
    ELSE IF IsSpace(Head(s))
        THEN SplitFrom(Tail(s), <<>>, IF cur = <<>> THEN acc ELSE Append(acc, cur))
        ELSE SplitFrom(Tail(s), Append(cur, Head(s)), acc)

split_whitespace(s) == SplitFrom(s, <<>>, <<>>)

\* the position of the first `^` of the token, 0 if there is none
FirstCaret(token) ==
    IF \E i \in 1..Len(token) : token[i] = "^"
    THEN CHOOSE i \in 1..Len(token) :
            token[i] = "^" /\ \A j \in 1..(i - 1) : token[j] # "^"
    ELSE 0

\* the closure of `tape.extend(token.chars().map(..))`; NoItem stands for
\* unreachable!()
SymbolItem(symbol) ==
    IF symbol = "D" THEN D
    ELSE IF symbol = "P" THEN P
    ELSE IF IsDigit(symbol) THEN C(DigitVal(symbol))
    ELSE IF symbol = "x" THEN X(1)
    ELSE IF symbol = "!" THEN ItemUnreachable
    ELSE NoItem

\* the items of a token that is neither the step prefix nor a head marker;
\* <<NoItem>> stands for a token that makes raw_parse fail
TokenItemsFirstSymbol(token) ==
    LET caret == FirstCaret(token)
        block == SubSeq(token, 1, caret - 1)
        exp == ParseUsize(SubSeq(token, caret + 1, Len(token)))
        encoded == SubSeq(token, 3, Len(token))
        r == ParseU16(SubSeq(encoded, 1, Len(encoded) - 1))
    IN  IF caret > 0
        THEN IF exp < 0 THEN <<NoItem>>
             ELSE IF block = <<"x">> THEN <<X(exp)>>
             ELSE IF block # <<>> /\ IsLetter(block[1])
                 THEN <<E(LetterIndex(block[1]), exp)>>
             ELSE <<NoItem>>
        ELSE IF Len(token) >= 2 /\ SubSeq(token, 1, 2) = <<"L", "(">>
        THEN IF encoded = <<>> \/ r < 0 THEN <<NoItem>> ELSE <<L(r)>>
        ELSE <<SymbolItem(token[1])>>

TokenItems(token) ==
    LET caret == FirstCaret(token)
        block == SubSeq(token, 1, caret - 1)
        exp == ParseUsize(SubSeq(token, caret + 1, Len(token)))
        encoded == SubSeq(token, 3, Len(token))
        r == ParseU16(SubSeq(encoded, 1, Len(encoded) - 1))
        items == [i \in 1..Len(token) |-> SymbolItem(token[i])]
    IN  IF caret > 0
        THEN IF exp < 0 THEN <<NoItem>>
             ELSE IF block = <<"x">> THEN <<X(exp)>>
             ELSE IF block # <<>> /\ IsLetter(block[1])
                 THEN <<E(LetterIndex(block[1]), exp)>>
             ELSE <<NoItem>>
        ELSE IF Len(token) >= 2 /\ SubSeq(token, 1, 2) = <<"L", "(">>
        THEN IF encoded = <<>> \/ r < 0 THEN <<NoItem>> ELSE <<L(r)>>
        ELSE IF \E i \in 1..Len(items) : items[i] = NoItem THEN <<NoItem>>
        ELSE items

\* one turn of the token loop of raw_parse on the parser state p
ParseTokenNoAssert(p, token) ==
    IF ~p.ok THEN p
    ELSE IF token[Len(token)] = ":"
        THEN LET n == ParseUsize(SubSeq(token, 1, Len(token) - 1))
             IN  IF n < 0 THEN [p EXCEPT !.ok = FALSE]
                 ELSE [p EXCEPT !.sim_step = n]
    ELSE IF token = <<"<">> \/ token = <<">">>
        THEN [p EXCEPT !.active = Right,
                       !.dir = IF token = <<"<">> THEN Left ELSE Right]
    ELSE LET items == TokenItems(token)
         IN  IF items = <<NoItem>> THEN [p EXCEPT !.ok = FALSE]
             ELSE IF p.active = Left
                 THEN [p EXCEPT !.ltape = p.ltape \o items]
                 ELSE [p EXCEPT !.rtape = p.rtape \o items]

ParseToken(p, token) ==
    IF ~p.ok THEN p
    ELSE IF token[Len(token)] = ":"
        THEN LET n == ParseUsize(SubSeq(token, 1, Len(token) - 1))
             IN  IF n < 0 THEN [p EXCEPT !.ok = FALSE]
                 ELSE [p EXCEPT !.sim_step = n]
    ELSE IF token = <<"<">> \/ token = <<">">>
        THEN IF p.active # Left THEN [p EXCEPT !.ok = FALSE]
             ELSE [p EXCEPT !.active = Right,
                            !.dir = IF token = <<"<">> THEN Left ELSE Right]
    ELSE LET items == TokenItems(token)
         IN  IF items = <<NoItem>> THEN [p EXCEPT !.ok = FALSE]
             ELSE IF p.active = Left
                 THEN [p EXCEPT !.ltape = p.ltape \o items]
                 ELSE [p EXCEPT !.rtape = p.rtape \o items]

RECURSIVE ParseTokens(_, _)
ParseTokens(p, tokens) ==
    IF tokens = <<>> THEN p
    ELSE ParseTokens(ParseToken(p, Head(tokens)), Tail(tokens))

\* fn raw_parse: the configuration (rtape in reading order) and the side the
\* accumulator is on; ok is FALSE when the call panics or returns Err
raw_parse(s) ==
    ParseTokens([ok |-> TRUE, ltape |-> <<>>, rtape |-> <<>>, dir |-> Right,
                 sim_step |-> 0, active |-> Left],
                split_whitespace(s))

\* Vec::reverse
Reverse(seq) == [i \in 1..Len(seq) |-> seq[Len(seq) + 1 - i]]

\* fn parse: a tape with no head marker
parse(s) ==
    LET p == raw_parse(s)
    IN  IF p.ok /\ p.active = Left
        THEN [ok |-> TRUE, tape |-> p.ltape]
        ELSE [ok |-> FALSE, tape |-> <<>>]

\* Configuration::from_str
FromStrNoReverse(s) ==
    LET p == raw_parse(s)
    IN  IF p.ok /\ p.active = Right
        THEN [ok |-> TRUE, conf |-> Conf(p.ltape, p.rtape, p.dir, p.sim_step)]
        ELSE [ok |-> FALSE, conf |-> Conf(<<>>, <<>>, Right, 0)]

from_str(s) ==
    LET p == raw_parse(s)
    IN  IF p.ok /\ p.active = Right
        THEN [ok |-> TRUE,
              conf |-> Conf(p.ltape, Reverse(p.rtape), p.dir, p.sim_step)]
        ELSE [ok |-> FALSE, conf |-> Conf(<<>>, <<>>, Right, 0)]

(***************************************************************************)
(* Display.  owo_colors wraps the styled text in an SGR escape sequence    *)
(* that switches the style on and one that switches it off.                *)
(***************************************************************************)
Sgr(code) == <<ESC, "[">> \o code \o <<"m">>

Styled(on, off, body) == Sgr(on) \o body \o Sgr(off)

bright_white(body) == Styled(<<"9", "7">>, <<"3", "9">>, body)

bright_green(body) == Styled(<<"9", "2">>, <<"3", "9">>, body)

bright_red(body) == Styled(<<"9", "1">>, <<"3", "9">>, body)

yellow(body) == Styled(<<"3", "3">>, <<"3", "9">>, body)

italic(body) == Styled(<<"3">>, <<"2", "3">>, body)

bold(body) == Styled(<<"1">>, <<"2", "2">>, body)

\* fn fmt_symbol
fmt_symbol(item) ==
    IF item = D THEN <<"D">>
    ELSE IF item = P THEN <<"P">>
    ELSE IF item.k = "C" THEN bold(italic(ToDigits(item.a)))
    ELSE IF item.k = "X"
        THEN IF item.a > 1000000000
             THEN <<" ", "x", "^">> \o bright_white(ToDigits(item.a)) \o <<" ">>
             ELSE <<" ", "x", "^">> \o ToDigits(item.a) \o <<" ">>
    ELSE IF item.k = "L"
        THEN <<" ", "L", "(">> \o ToDigits(item.a) \o <<")", " ">>
    ELSE IF item.k = "E"
        THEN <<" ">> \o bold(yellow(<<LetterChars[item.a + 1]>>))
             \o <<"^">> \o ToDigits(item.b) \o <<" ">>
    ELSE <<" ">> \o bright_red(<<"!">>) \o <<" ">>

RECURSIVE FmtItems(_)
FmtItems(tape) ==
    IF tape = <<>> THEN <<>>
    ELSE fmt_symbol(Head(tape)) \o FmtItems(Tail(tape))

\* impl fmt::Display for Configuration
fmt(c) ==
    bright_white(ToDigits(c.sim_step)) \o <<":", " ", " ">>
    \o FmtItems(c.ltape)
    \o <<" ">>
    \o bold(bright_green(IF c.dir = Left THEN <<"<">> ELSE <<">">>))
    \o <<" ">>
    \o FmtItems(Reverse(c.rtape))

\* strip_ansi_escapes::strip: drop every escape sequence, from ESC to its
\* final byte (the first character after `ESC [` that is no parameter)
RECURSIVE SkipParams(_)
SkipParams(s) ==
    IF s = <<>> THEN <<>>
    ELSE IF IsDigit(Head(s)) \/ Head(s) = ";" THEN SkipParams(Tail(s))
    ELSE Tail(s)

RECURSIVE strip(_)
strip(s) ==
    IF s = <<>> THEN <<>>
    ELSE IF Head(s) = ESC
        THEN IF Len(s) >= 2 /\ s[2] = "["
             THEN strip(SkipParams(SubSeq(s, 3, Len(s))))
             ELSE strip(Tail(s))
    ELSE <<Head(s)>> \o strip(Tail(s))

\* `s.split_whitespace().collect::<String>()`
RECURSIVE Concat(_)
Concat(tokens) ==
    IF tokens = <<>> THEN <<>> ELSE Head(tokens) \o Concat(Tail(tokens))

Squeeze(s) == Concat(split_whitespace(s))

(***************************************************************************)
(* The loop of Configuration::run.                                         *)
(***************************************************************************)
\* n & ((1 << k) - 1) == 0: the k lowest bits of n are 0
RECURSIVE LowBitsZero(_, _)
LowBitsZero(n, k) ==
    \/ k = 0
    \/ n = 0
    \/ (n % 2 = 0 /\ LowBitsZero(n \div 2, k - 1))

\* `while self.sim_step < cfg.sim_step_limit`
LoopCondInclusive(n, limit) == n <= limit

LoopCond(n, limit) == n < limit

\* `self.sim_step += 1`
AdvanceTwice(c) == [c EXCEPT !.sim_step = c.sim_step + 2]

Advance(c) == [c EXCEPT !.sim_step = c.sim_step + 1]

\* `self.sim_step & ((1 << cfg.print_mod) - 1) == 0`
Printing(c, config) == LowBitsZero(c.sim_step, config.print_mod)

\* one turn of the loop on configuration c: the Err returned ("" if none),
\* the configuration after the turn and the number of lines printed
LoopBodyPrintAdvances(c, config) ==
    IF IsErrArm(Arm(c))
    THEN [err |-> Arm(c), conf |-> ApplyArm(c), lines |-> 0]
    ELSE LET n == Advance(ApplyArm(c))
         IN  [err |-> "",
              conf |-> IF Printing(n, config) THEN Advance(n) ELSE n,
              lines |-> IF Printing(n, config) THEN 1 ELSE 0]

LoopBody(c, config) ==
    IF IsErrArm(Arm(c))
    THEN [err |-> Arm(c), conf |-> ApplyArm(c), lines |-> 0]
    ELSE LET n == Advance(ApplyArm(c))
         IN  [err |-> "", conf |-> n,
              lines |-> IF Printing(n, config) THEN 1 ELSE 0]

(***************************************************************************)
(* Input texts.  A text is written as a list of tokens and joined with     *)
(* single blanks.                                                          *)
(***************************************************************************)
RECURSIVE Join(_)
Join(tokens) ==
    IF tokens = <<>> THEN <<>>
    ELSE IF Len(tokens) = 1 THEN tokens[1]
    ELSE tokens[1] \o <<" ">> \o Join(Tail(tokens))

TokX(n) == <<"x", "^">> \o ToDigits(n)

TokL(n) == <<"L", "(">> \o ToDigits(n) \o <<")">>

TokE(letter, n) == <<letter, "^">> \o ToDigits(n)

TokStep(n) == Append(ToDigits(n), ":")

\* the largest step budget and the largest initial step count of the runs
MaxBudget == 3

\* tokens of one tape side of a start configuration
SideTokens ==
    { <<"D">>, <<"P">>, <<"0">>, <<"3">>, <<"x">>, <<"!">>,
      TokX(2), TokE("b", 2), TokE("c", 1) }

\* the sides with at most one token each
ShortPairs ==
    { <<<<>>, <<>>>> }
    \cup { <<<<t>>, <<>>>> : t \in SideTokens }
    \cup { <<<<>>, <<t>>>> : t \in SideTokens }
    \cup { <<<<t>>, <<u>>>> : t \in SideTokens, u \in SideTokens }

\* the sides with at most two tokens in all
SidePairs ==
    ShortPairs
    \cup { <<<<t, u>>, <<>>>> : t \in SideTokens, u \in SideTokens }
    \cup { <<<<>>, <<t, u>>>> : t \in SideTokens, u \in SideTokens }

\* configurations written out for the deeper patterns of the match
DeepTexts ==
    { Join(<<<<">">>, <<"P", "D", "3">>, TokX(2)>>),
      Join(<<<<">">>, <<"P", "D", "D">>, TokX(1)>>),
      Join(<<<<">">>, <<"P", "D", "P">>>>),
      Join(<<<<">">>, <<"P", "D">>, TokX(3)>>),
      Join(<<<<">">>, <<"P", "3">>, TokX(2)>>),
      Join(<<<<">">>, <<"D", "3", "3">>>>),
      Join(<<TokX(2), <<">">>, <<"P">>, TokX(3), <<"!">>>>),
      Join(<<TokX(2), <<">">>, <<"D", "!", "P">>>>),
      Join(<<TokX(2), TokL(31), <<"<">>, <<"!">>>>),
      Join(<<<<"!">>, TokX(2), <<"<">>, TokX(3)>>),
      Join(<<<<"<">>, <<"3">>, TokX(2), <<"!">>>>),
      Join(<<<<"2">>, TokX(7640), <<"D">>, TokX(10345), <<">">>, <<"3", "!">>>>),
      Join(<<TokE("b", 1), <<">">>, <<"P">>, TokE("b", 3), <<"D", "!">>>>) }

\* an optional `N:` prefix, the left side, the head marker, the right side
ConfTexts ==
    { Join(p[1] \o <<<<m>>>> \o p[2]) : p \in SidePairs, m \in {"<", ">"} }
    \cup { Join(<<TokStep(MaxBudget - 1)>> \o p[1] \o <<<<m>>>> \o p[2]) :
            p \in ShortPairs, m \in {"<", ">"} }
    \cup DeepTexts

\* the configurations a run can start from: Configuration::new() and the
\* configurations parsed from a text
StartConfs ==
    {New} \cup { from_str(t).conf : t \in { u \in ConfTexts : from_str(u).ok } }

\* the trace intervals (print_mod) of the runs; the TUI runs with 63
PrintMods == {<<0, 63>>, <<1, 0>>}

(***************************************************************************)
(* State.                                                                  *)
(***************************************************************************)
VARIABLES
    ltape, rtape, dir, sim_step,  \* the live Configuration
    cfg,        \* the Config of the call of run in progress
    pc,         \* where the program is
    ret,        \* the result of the last call of run ("Ok" before any call)
    printed,    \* lines printed by the loop of the call in progress
    start,      \* the configuration the program started with
    entry,      \* the configuration at the entry of the last call of run
    lastok,     \* the configuration after the last arm that returned no Err
    applied,    \* arms applied (no Err) during the last call of run
    before,     \* the configuration the last applied arm was applied to
    phase,      \* 1: one call to budget b; 2, 3: a clone run to b1, then to b
    plan,       \* the budgets b1 <= b and the trace intervals of the calls
    first,      \* the outcome of the call of phase 1
    text,       \* the text given to the parser
    shown,      \* the text last printed with `{conf}`
    snapshot,   \* the configuration that was printed
    origin,     \* what was printed: a parsed or a run configuration
    tapeA, tapeB, \* the two tapes of the one-sided parser
    state,      \* tui: the result of the last call of run, Ok before any
    history,    \* tui: the (speed, state, conf) entries, the newest first
    speed,      \* tui: a press of `j` runs 2^speed steps
    keys,       \* tui: the keys handled so far
    screens     \* tui: the state and the configuration drawn so far

confVars == <<ltape, rtape, dir, sim_step>>

runVars == <<cfg, ret, printed, entry, lastok, applied, before>>

tuiVars == <<state, history, speed, keys, screens>>

planVars == <<start, phase, plan, first, tuiVars>>

codecVars == <<text, shown, snapshot, origin>>

tapeVars == <<tapeA, tapeB>>

vars == <<confVars, runVars, planVars, codecVars, tapeVars, pc>>

\* the variables of tui before tui is entered
NoTui ==
    /\ state = "Ok"
    /\ history = <<>>
    /\ speed = 0
    /\ keys = <<>>
    /\ screens = <<>>

\* the live Configuration as one value, and its assignment
Live == Conf(ltape, rtape, dir, sim_step)

SetLive(c) ==
    /\ ltape' = c.ltape
    /\ rtape' = c.rtape
    /\ dir' = c.dir
    /\ sim_step' = c.sim_step

IsLive(c) ==
    /\ ltape = c.ltape
    /\ rtape = c.rtape
    /\ dir = c.dir
    /\ sim_step = c.sim_step

NoConf == Conf(<<>>, <<>>, Right, 0)

Config(limit, print_mod) == [sim_step_limit |-> limit, print_mod |-> print_mod]

(***************************************************************************)
(* Configuration::run, one turn of its loop per step.                      *)
(***************************************************************************)
\* entry of `conf.run(machine, blocks, cfg)`
Enter(config) ==
    /\ cfg' = config
    /\ entry' = Live
    /\ lastok' = Live
    /\ before' = Live
    /\ applied' = 0
    /\ printed' = 0
    /\ pc' = "run"
    /\ UNCHANGED <<confVars, ret>>

\* a turn of the loop whose arm returns no Err
RunStep ==
    /\ pc = "run"
    /\ LoopCond(sim_step, cfg.sim_step_limit)
    /\ LoopBody(Live, cfg).err = ""
    /\ SetLive(LoopBody(Live, cfg).conf)
    /\ lastok' = LoopBody(Live, cfg).conf
    /\ before' = Live
    /\ applied' = applied + 1
    /\ printed' = printed + LoopBody(Live, cfg).lines
    /\ UNCHANGED <<cfg, ret, entry, pc, planVars, codecVars, tapeVars>>

\* a turn of the loop whose arm is `return Err(..)`
RunErr ==
    /\ pc = "run"
    /\ LoopCond(sim_step, cfg.sim_step_limit)
    /\ LoopBody(Live, cfg).err # ""
    /\ SetLive(LoopBody(Live, cfg).conf)
    /\ ret' = LoopBody(Live, cfg).err
    /\ pc' = "returned"
    /\ UNCHANGED <<cfg, printed, entry, lastok, applied, before, planVars,
                   codecVars, tapeVars>>

\* `return Err(Err::StepLimit)` below the loop
RunLimit ==
    /\ pc = "run"
    /\ ~LoopCond(sim_step, cfg.sim_step_limit)
    /\ ret' = "StepLimit"
    /\ pc' = "returned"
    /\ UNCHANGED <<confVars, cfg, printed, entry, lastok, applied, before,
                   planVars, codecVars, tapeVars>>

(***************************************************************************)
(* The callers of run: a call to budget b (main), then, on a clone of the  *)
(* start configuration, a call to budget b1 and a second call to budget b  *)
(* from where the first one stopped (tui, key j).                          *)
(***************************************************************************)
Budget == IF phase = 2 THEN plan.b1 ELSE plan.b

TraceInterval == IF phase = 1 THEN plan.pm[1] ELSE plan.pm[2]

Call ==
    /\ pc = "idle"
    /\ Enter(Config(Budget, TraceInterval))
    /\ UNCHANGED <<planVars, codecVars, tapeVars>>

\* keep the outcome of the first call and go on with a clone of the start
Restore ==
    /\ pc = "returned"
    /\ phase = 1
    /\ first' = [conf |-> Live, ret |-> ret]
    /\ SetLive(start)
    /\ phase' = 2
    /\ pc' = "idle"
    /\ UNCHANGED <<runVars, start, plan, tuiVars, codecVars, tapeVars>>

\* call run again on the configuration the last call left
Resume ==
    /\ pc = "returned"
    /\ phase = 2
    /\ phase' = 3
    /\ pc' = "idle"
    /\ UNCHANGED <<confVars, runVars, start, plan, first, tuiVars, codecVars,
                   tapeVars>>

Init ==
    /\ \E c \in StartConfs :
        /\ IsLive(c)
        /\ start = c
        /\ entry = c
        /\ lastok = c
        /\ before = c
    /\ \E b \in 0..MaxBudget, b1 \in 0..MaxBudget, pm \in PrintMods :
        /\ b1 <= b
        /\ plan = [b1 |-> b1, b |-> b, pm |-> pm]
    /\ cfg = Config(0, 0)
    /\ pc = "idle"
    /\ ret = "Ok"
    /\ printed = 0
    /\ applied = 0
    /\ phase = 1
    /\ first = [conf |-> NoConf, ret |-> "Ok"]
    /\ text = <<>>
    /\ shown = <<>>
    /\ snapshot = NoConf
    /\ origin = ""
    /\ tapeA = <<>>
    /\ tapeB = <<>>
    /\ NoTui

Next == Call \/ RunStep \/ RunErr \/ RunLimit \/ Restore \/ Resume

Spec == Init /\ [][Next]_vars


(***************************************************************************)
(* Properties of Configuration::run.                                       *)
(***************************************************************************)
Failures == {"UnknownTransition", "Unreachable"}

\* C1: during and after a call of run, sim_step is the sim_step at the entry
\* of the call plus the number of arms applied by the call, so every applied
\* arm adds exactly 1, a turn that returns UnknownTransition or Unreachable
\* adds nothing, and sim_step never decreases.
C1_StepAccounting ==
    pc \in {"run", "returned"} =>
        /\ sim_step = entry.sim_step + applied
        /\ sim_step >= entry.sim_step

C1_Witness ==
    pc = "returned" /\ ret \in Failures /\ applied >= 2

\* C2 as stated: whenever run returns StepLimit, sim_step equals the budget.
C2_Original ==
    (pc = "returned" /\ ret = "StepLimit") => sim_step = cfg.sim_step_limit

\* C2 as amended: whenever run returns StepLimit, sim_step equals the budget
\* if sim_step was at most the budget at the entry of the call, and the
\* configuration is the one at the entry, with sim_step above the budget,
\* otherwise.
C2_BudgetReached ==
    (pc = "returned" /\ ret = "StepLimit") =>
        IF entry.sim_step <= cfg.sim_step_limit
        THEN sim_step = cfg.sim_step_limit
        ELSE Live = entry

C2_Witness ==
    /\ pc = "returned"
    /\ ret = "StepLimit"
    /\ applied >= 2
    /\ sim_step = cfg.sim_step_limit

\* C3: when run returns UnknownTransition or Unreachable, the configuration
\* is the one after the last arm applied, and the one at the entry of the call
\* if no arm was applied.
C3_FailureChangesNothing ==
    (pc = "returned" /\ ret \in Failures) =>
        /\ Live = lastok
        /\ (applied = 0 => Live = entry)

C3_Witness ==
    /\ pc = "returned"
    /\ ret = "UnknownTransition"
    /\ applied = 0
    /\ cfg.sim_step_limit = entry.sim_step + 1
    /\ ltape # <<>>

\* no two adjacent X items on the tape
NoAdjacentX(tape) ==
    \A i \in 1..(Len(tape) - 1) : ~(IsX(tape[i]) /\ IsX(tape[i + 1]))

\* C4: if neither tape of the start configuration holds two adjacent X items,
\* neither tape of any configuration reached by run does.
C4_NoAdjacentRuns ==
    (NoAdjacentX(start.ltape) /\ NoAdjacentX(start.rtape)) =>
        (NoAdjacentX(ltape) /\ NoAdjacentX(rtape))

\* C5: a turn of the loop on a configuration whose head-adjacent item in the
\* scan direction is Unreachable returns Err(Unreachable) and leaves the
\* configuration as it is.
C5_SentinelCheck ==
    [][ ( /\ pc = "run"
          /\ sim_step < cfg.sim_step_limit
          /\ \/ (dir = Left /\ At(ltape, 1) = ItemUnreachable)
             \/ (dir = Right /\ At(rtape, 1) = ItemUnreachable) )
        => ( /\ pc' = "returned"
             /\ ret' = "Unreachable"
             /\ UNCHANGED confVars ) ]_vars

C5_Witness ==
    /\ pc = "returned"
    /\ ret = "Unreachable"
    /\ dir = Right
    /\ applied >= 1
    /\ Len(rtape) >= 2
    /\ ltape # <<>>

\* C6: a call to budget b1 followed by a call to budget b > b1 on the
\* configuration it left ends with the configuration and the result of one
\* call to budget b on the same start configuration.
C6_Resumable ==
    (phase = 3 /\ pc = "returned" /\ plan.b1 < plan.b) =>
        (Live = first.conf /\ ret = first.ret)

C6_Witness ==
    /\ phase = 3
    /\ pc = "returned"
    /\ plan.b1 < plan.b
    /\ entry.sim_step > start.sim_step
    /\ applied >= 1
    /\ ret \in Failures

CodecTokens ==
    { <<"D">>, <<"P">>, <<"0">>, <<"3">>, <<"9">>, <<"x">>, <<"!">>,
      <<"3", "1">>, <<"D", "x">>,
      TokX(1), TokX(17), <<"x", "^", "0", "2">>, TokX(1000000001),
      TokL(432), TokE("a", 4), TokE("z", 1) }

\* the `N:` prefixes of a --conf text: none, canonical, with a leading zero
CodecPrefixes == { <<>>, <<TokStep(0)>>, <<TokStep(7)>>, <<<<"0", "7", ":">>>> }

CodecSides ==
    { <<<<>>, <<>>>> }
    \cup { <<<<t>>, <<>>>> : t \in CodecTokens }
    \cup { <<<<>>, <<t>>>> : t \in CodecTokens }
    \cup { <<<<t>>, <<u>>>> : t \in CodecTokens, u \in CodecTokens }
    \cup { <<<<>>, <<t, <<"P">>>>>> : t \in CodecTokens }
    \cup { <<<<<<"D">>, t>>, <<>>>> : t \in CodecTokens }

\* the texts of the test parse_conf
ParseConfInputs ==
    { Join(<<TokStep(0), <<"2">>, TokX(3), <<"P">>, TokE("a", 4), <<"D", "D">>,
             TokX(167), <<"3", "1">>, TokX(17), TokL(432), <<">">>, <<"3">>,
             TokX(70), <<"P">>>>),
      Join(<<TokStep(0), <<"0">>, <<"<">>, <<"1">>, <<"!">>>>) }

\* texts that are no configuration: no marker, two markers, a bad token
BadTexts ==
    { Join(<<<<"D">>, <<"P">>>>),
      Join(<<<<"D">>, <<"<">>, <<"P">>, <<">">>>>),
      Join(<<<<"D">>, <<">">>, <<"Q">>>>),
      Join(<<<<">">>, <<"x", "^">>>>),
      Join(<<<<">">>, <<"L", "(">>>>),
      Join(<<<<":">>, <<">">>>>) }

CodecTexts ==
    { Join(pre \o p[1] \o <<<<m>>>> \o p[2]) :
        pre \in {<<>>, <<TokStep(7)>>}, p \in CodecSides, m \in {"<", ">"} }
    \cup { Join(pre \o <<t, <<">">>, <<"P">>>>) :
            pre \in CodecPrefixes, t \in CodecTokens }
    \cup ParseConfInputs \cup BadTexts

\* `args.conf`: Configuration::from_str on the --conf text
ParseArg ==
    /\ pc = "parse"
    /\ IF from_str(text).ok
       THEN SetLive(from_str(text).conf) /\ pc' = "parsed"
       ELSE UNCHANGED confVars /\ pc' = "rejected"
    /\ UNCHANGED <<runVars, planVars, codecVars, tapeVars>>

\* `println!("{}", conf)` before the run and `println!("{conf}")` after it
Show ==
    /\ pc \in {"parsed", "returned"}
    /\ shown' = fmt(Live)
    /\ snapshot' = Live
    /\ origin' = pc
    /\ pc' = "shown"
    /\ UNCHANGED <<confVars, runVars, planVars, text, tapeVars>>

\* `conf.run(&machine, &blocks, cfg)`
MainRun ==
    /\ pc = "shown"
    /\ origin = "parsed"
    /\ Enter(Config(plan.b, plan.pm[1]))
    /\ UNCHANGED <<planVars, codecVars, tapeVars>>

\* the printed configuration, without its decoration, parsed again
Reparse ==
    /\ pc = "shown"
    /\ IF from_str(strip(shown)).ok
       THEN SetLive(from_str(strip(shown)).conf) /\ pc' = "reparsed"
       ELSE UNCHANGED confVars /\ pc' = "unparsed"
    /\ UNCHANGED <<runVars, planVars, codecVars, tapeVars>>

InitCodec ==
    /\ \/ text \in CodecTexts /\ pc = "parse" /\ IsLive(NoConf)
       \/ text = <<>> /\ pc = "parsed" /\ IsLive(New)
    /\ start = NoConf
    /\ entry = NoConf
    /\ lastok = NoConf
    /\ before = NoConf
    /\ \E b \in {1, MaxBudget} : plan = [b1 |-> b, b |-> b, pm |-> <<0, 63>>]
    /\ cfg = Config(0, 0)
    /\ ret = "Ok"
    /\ printed = 0
    /\ applied = 0
    /\ phase = 1
    /\ first = [conf |-> NoConf, ret |-> "Ok"]
    /\ shown = <<>>
    /\ snapshot = NoConf
    /\ origin = ""
    /\ tapeA = <<>>
    /\ tapeB = <<>>
    /\ NoTui

NextCodec ==
    ParseArg \/ Show \/ MainRun \/ RunStep \/ RunErr \/ RunLimit \/ Reparse

SpecCodec == InitCodec /\ [][NextCodec]_vars

(***************************************************************************)
(* Properties of the textual notation.                                     *)
(***************************************************************************)
\* C8: parsing the printed text of a configuration reached from
\* Configuration::new() or from a parsed configuration gives that
\* configuration back.
C8_ParseAfterRender ==
    /\ pc # "unparsed"
    /\ pc = "reparsed" => Live = snapshot

\* a number written without sign and without leading zeros
CanonNum(s) ==
    /\ s # <<>>
    /\ \A i \in 1..Len(s) : IsDigit(s[i])
    /\ (Len(s) = 1 \/ s[1] # "0")

\* a token of a tape side that writes its number canonically and no bare x
CanonToken(token) ==
    IF FirstCaret(token) > 0
    THEN /\ FirstCaret(token) = 2
         /\ CanonNum(SubSeq(token, 3, Len(token)))
    ELSE IF Len(token) >= 2 /\ SubSeq(token, 1, 2) = <<"L", "(">>
    THEN /\ token[Len(token)] = ")"
         /\ CanonNum(SubSeq(token, 3, Len(token) - 1))
    ELSE \A i \in 1..Len(token) : token[i] # "x"

\* a text that starts with the `N:` prefix and holds canonical tokens only
CanonText(s) ==
    LET tokens == split_whitespace(s)
    IN  /\ tokens # <<>>
        /\ tokens[1][Len(tokens[1])] = ":"
        /\ CanonNum(SubSeq(tokens[1], 1, Len(tokens[1]) - 1))
        /\ \A i \in 2..Len(tokens) :
            \/ tokens[i] \in {<<"<">>, <<">">>}
            \/ CanonToken(tokens[i])

\* C9 as stated: the printed text of the configuration parsed from a text,
\* without decoration and whitespace, is that text without whitespace.
C9_Original ==
    (pc = "shown" /\ origin = "parsed" /\ text # <<>>) =>
        Squeeze(strip(shown)) = Squeeze(text)

\* C9 as amended: the same, for the texts that start with the `N:` prefix,
\* write every run as `x^N` (no bare `x`) and write every number without
\* sign or leading zeros.
C9_RenderAfterParse ==
    (pc = "shown" /\ origin = "parsed" /\ text # <<>> /\ CanonText(text)) =>
        Squeeze(strip(shown)) = Squeeze(text)

C9_Witness ==
    /\ pc = "shown"
    /\ origin = "parsed"
    /\ CanonText(text)
    /\ Len(snapshot.ltape) >= 5
    /\ Len(snapshot.rtape) >= 3
    /\ \E i \in 1..Len(snapshot.ltape) : snapshot.ltape[i].k = "E"

(***************************************************************************)
(* The test parse_block: a tape text and its mirror are parsed with        *)
(* parse, the tape of the mirror is reversed and the two are compared.     *)
(***************************************************************************)
\* a token that stands for one item: `x^N`, `<letter>^N`, `L(N)`
IsCompressed(token) ==
    \/ FirstCaret(token) > 0
    \/ (Len(token) >= 2 /\ SubSeq(token, 1, 2) = <<"L", "(">>)

\* the tokens in reverse order, the characters of each literal token reversed
Mirror(s) ==
    LET tokens == split_whitespace(s)
    IN  Join(Reverse([i \in 1..Len(tokens) |->
                        IF IsCompressed(tokens[i]) THEN tokens[i]
                        ELSE Reverse(tokens[i])]))

\* the number of items the tokens of a text stand for
RECURSIVE ItemCount(_)
ItemCount(tokens) ==
    IF tokens = <<>> THEN 0
    ELSE (IF IsCompressed(Head(tokens)) THEN 1 ELSE Len(Head(tokens)))
         + ItemCount(Tail(tokens))

TapeTokens ==
    { <<"D">>, <<"!">>, <<"x">>, <<"P", "D">>, <<"x", "2", "3">>,
      <<"3", "2", "x", "!">>, TokX(7640), TokX(1), TokL(69), TokE("a", 4) }

\* the two texts of the test, and a text with a head marker
ParseBlockInputs ==
    { Join(<<<<"!">>, <<"x", "2", "3">>, TokX(7640), <<"D", "P">>, TokX(10344),
             TokL(69)>>),
      Join(<<TokL(69), TokX(10344), <<"P", "D">>, TokX(7640),
             <<"3", "2", "x", "!">>>>),
      Join(<<<<"D">>, <<">">>, <<"P">>>>) }

TapeTexts ==
    { Join(<<>>) }
    \cup { Join(<<t>>) : t \in TapeTokens }
    \cup { Join(<<t, u>>) : t \in TapeTokens, u \in TapeTokens }
    \cup { Join(<<t, <<"P", "3">>, u>>) : t \in TapeTokens, u \in TapeTokens }
    \cup ParseBlockInputs

\* `let mut b = parse(<the mirror of the text>)?`
ParseMirror ==
    /\ pc = "tape"
    /\ IF parse(Mirror(text)).ok
       THEN tapeB' = parse(Mirror(text)).tape /\ pc' = "parsedB"
       ELSE UNCHANGED tapeB /\ pc' = "rejected"
    /\ UNCHANGED <<confVars, runVars, planVars, codecVars, tapeA>>

\* `b.reverse()`
ReverseB ==
    /\ pc = "parsedB"
    /\ tapeB' = Reverse(tapeB)
    /\ pc' = "reversedB"
    /\ UNCHANGED <<confVars, runVars, planVars, codecVars, tapeA>>

\* `assert_eq!(b, parse(<the text>)?)`: the right-hand side
ParseText ==
    /\ pc = "reversedB"
    /\ IF parse(text).ok
       THEN tapeA' = parse(text).tape /\ pc' = "compare"
       ELSE UNCHANGED tapeA /\ pc' = "rejected"
    /\ UNCHANGED <<confVars, runVars, planVars, codecVars, tapeB>>

InitTape ==
    /\ text \in TapeTexts
    /\ pc = "tape"
    /\ IsLive(NoConf)
    /\ start = NoConf
    /\ entry = NoConf
    /\ lastok = NoConf
    /\ before = NoConf
    /\ plan = [b1 |-> 0, b |-> 0, pm |-> <<0, 63>>]
    /\ cfg = Config(0, 0)
    /\ ret = "Ok"
    /\ printed = 0
    /\ applied = 0
    /\ phase = 1
    /\ first = [conf |-> NoConf, ret |-> "Ok"]
    /\ shown = <<>>
    /\ snapshot = NoConf
    /\ origin = ""
    /\ tapeA = <<>>
    /\ tapeB = <<>>
    /\ NoTui

NextTape == ParseMirror \/ ReverseB \/ ParseText

SpecTape == InitTape /\ [][NextTape]_vars

\* C10: parse gives one item per compressed token and one item per character
\* of a literal token, in reading order: the tape parsed from the mirror of a
\* text, reversed, is the tape parsed from the text.
C10_ReversalSymmetry ==
    pc = "compare" =>
        /\ tapeB = tapeA
        /\ Len(tapeA) = ItemCount(split_whitespace(text))

C10_Witness ==
    /\ pc = "compare"
    /\ Len(tapeA) >= 9
    /\ tapeA # Reverse(tapeA)
    /\ \E i \in 1..Len(tapeA) : tapeA[i].k = "L"

(***************************************************************************)
(* The two entry points of the parser together: Configuration::from_str    *)
(* on a --conf text (main) and parse on a tape text (the test              *)
(* parse_block).                                                           *)
(***************************************************************************)
InitParse == InitCodec \/ InitTape

NextParse == ParseArg \/ ParseMirror \/ ReverseB \/ ParseText

SpecParse == InitParse /\ [][NextParse]_vars

\* the positions of the head markers among the tokens of a text
Markers(tokens) ==
    { i \in 1..Len(tokens) : tokens[i] = <<"<">> \/ tokens[i] = <<">">> }

\* the items written by the tokens, the `N:` tokens left out
RECURSIVE ItemsOf(_)
ItemsOf(tokens) ==
    IF tokens = <<>> THEN <<>>
    ELSE IF Head(tokens)[Len(Head(tokens))] = ":" THEN ItemsOf(Tail(tokens))
    ELSE TokenItems(Head(tokens)) \o ItemsOf(Tail(tokens))

\* C11: a --conf text is accepted only if exactly one of its tokens is `<` or
\* `>`, and then the marker gives the direction, the tokens before it the left
\* tape and the tokens after it the right tape, the first item after the
\* marker last; a text with no marker or with two yields no Configuration; a
\* tape text is accepted only if none of its tokens is a marker.
C11_HeadMarker ==
    LET tokens == split_whitespace(text)
        m == CHOOSE i \in Markers(tokens) : TRUE
        after == ItemsOf(SubSeq(tokens, m + 1, Len(tokens)))
    IN  /\ (pc = "parsed" /\ text # <<>>) =>
            /\ Cardinality(Markers(tokens)) = 1
            /\ dir = (IF tokens[m] = <<"<">> THEN Left ELSE Right)
            /\ ltape = ItemsOf(SubSeq(tokens, 1, m - 1))
            /\ Len(rtape) = Len(after)
            /\ \A i \in 1..Len(after) : rtape[Len(rtape) + 1 - i] = after[i]
        /\ (pc \in {"parsed", "rejected"} /\ text # <<>>
              /\ Cardinality(Markers(tokens)) # 1) =>
            (pc = "rejected" /\ Live = NoConf)
        /\ (pc \in {"parsedB", "reversedB", "compare"}) =>
            Markers(tokens) = {}

\* a text with a step prefix and several items on both sides is accepted
C11_Witness ==
    /\ pc = "parsed"
    /\ text # <<>>
    /\ sim_step > 0
    /\ Len(ltape) >= 2
    /\ Len(rtape) >= 2
    /\ rtape[1] # rtape[2]

(***************************************************************************)
(* Configuration::run on the configurations written for single arms of    *)
(* the match: the pattern of an arm next to the head, with a few tape      *)
(* contents around it.                                                     *)
(***************************************************************************)
\* the largest step budget of these runs
MaxSteps == 20

\* what the left tape holds below the pattern
LeftContexts ==
    { <<>>, <<TokX(1)>>, <<TokX(2)>>, <<<<"D">>>>, <<TokE("c", 1)>> }

\* the head-adjacent item of the left tape, direction Left
LeftPatterns ==
    { <<"0">>, <<"1">>, <<"2">>, <<"3">>, <<"P">>, <<"D">>, <<"x">>,
      TokL(2332), TokL(2301), TokL(252), TokL(432), TokL(401), TokL(62),
      TokL(31), TokL(69), TokE("a", 1), TokE("b", 2), TokE("c", 1),
      TokE("c", 2) }

\* the right tape of these configurations, head-adjacent token first
RightContexts == { <<>>, <<<<"P">>>>, <<<<"3">>, TokX(2)>> }

LeftTexts ==
    { Join(lc \o <<pat, <<"<">>>> \o rc) :
        lc \in LeftContexts, pat \in LeftPatterns, rc \in RightContexts }

\* what the left tape holds, direction Right
LeftEnds ==
    { <<>>, <<TokX(2)>>, <<<<"D">>>>, <<<<"0">>>>, <<<<"2">>>>,
      <<TokE("b", 1)>>, <<<<"D">>, TokE("c", 2)>> }

\* the items of the right tape next to the head, head-adjacent first
RightPatterns ==
    { <<<<"D">>, <<"3">>, <<"3">>>>, <<<<"D">>, <<"3">>>>, <<<<"D">>>>,
      <<<<"D">>, <<"3">>, <<"x">>>>, <<<<"D">>, <<"P">>>>,
      <<<<"P">>, TokX(4)>>, <<<<"P">>, <<"x">>>>, <<<<"P">>, TokE("b", 3)>>,
      <<<<"P">>, <<"D">>, <<"P">>>>, <<<<"P">>, <<"D">>, TokX(2)>>,
      <<<<"P">>, <<"D">>, <<"3">>, TokX(2)>>,
      <<<<"P">>, <<"D">>, <<"D">>, <<"x">>>>, <<<<"P">>, <<"3">>, <<"x">>>>,
      <<<<"P">>>>, <<<<"P">>, <<"P">>>>, <<TokX(3)>>, <<TokE("b", 2)>>,
      <<TokE("c", 1)>>, <<<<"3">>>>, <<<<"!">>>> }

\* what the right tape holds behind the pattern
RightEnds == { <<>>, <<<<"D">>>>, <<<<"3">>>> }

RightTexts ==
    { Join(le \o <<<<">">>>> \o pat \o re) :
        le \in LeftEnds, pat \in RightPatterns, re \in RightEnds }

\* the motif of block a written as tokens, its last exponent being n
MotifATokens(n) == <<<<"2">>, TokX(7640), <<"D">>, TokX(n)>>

\* the left tape of `x > 3`: the motif of block a, one step before it is
\* complete, and tapes that differ from it in one place
NearMotifA ==
    { MotifATokens(10345), MotifATokens(10344), MotifATokens(10346),
      <<<<"1">>, TokX(7640), <<"D">>, TokX(10345)>>,
      <<<<"2">>, TokX(7641), <<"D">>, TokX(10345)>>,
      <<<<"2">>, TokX(7640), <<"P">>, TokX(10345)>>,
      <<TokX(7640), <<"D">>, TokX(10345)>>,
      <<TokX(10345)>> }

BelowMotifA ==
    { <<>>, <<TokE("a", 1)>>, <<TokE("a", 3)>>, <<TokE("b", 1)>>,
      <<<<"D">>>>, MotifATokens(10344) }

CompactATexts ==
    { Join(below \o m \o <<<<">">>, <<"3">>>> \o re) :
        below \in BelowMotifA, m \in NearMotifA, re \in {<<>>, <<<<"D">>>>} }

\* the motif of block b written as tokens, without its last run
MotifBTokens(n) ==
    <<<<"D">>, TokX(72142), <<"D">>, TokX(3076), <<"D">>, TokX(1538),
      <<"D">>, TokX(n), <<"D">>>>

\* the left tape of `> x` and the run that moves: the motif of block b one
\* step before it is complete, and tapes that differ from it in one place
NearMotifB ==
    { <<MotifBTokens(300), 30826>>, <<MotifBTokens(300), 30825>>,
      <<MotifBTokens(300), 30827>>,
      <<Append(MotifBTokens(300), <<"x">>), 30825>>,
      <<Append(MotifBTokens(300), <<"x">>), 30826>>,
      <<MotifBTokens(301), 30826>>,
      <<Tail(MotifBTokens(300)), 30826>>,
      <<<<TokX(300), <<"D">>>>, 30826>> }

BelowMotifB ==
    { <<>>, <<TokE("b", 1)>>, <<TokE("b", 2)>>, <<TokE("a", 1)>>,
      <<<<"P">>>>, <<TokE("c", 1)>> }

CompactBTexts ==
    { Join(below \o m[1] \o <<<<">">>, TokX(m[2])>> \o re) :
        below \in BelowMotifB, m \in NearMotifB, re \in {<<>>, <<<<"D">>>>} }

\* runs of several steps: a block a and a block b the head comes back to
LongTexts ==
    { Join(MotifATokens(10345) \o <<<<">">>, <<"3">>, <<"3">>, <<"P">>>>),
      Join(MotifBTokens(300) \o <<<<">">>, TokX(30826), <<"P">>>>),
      Join(<<<<">">>, <<"P">>, TokE("b", 2)>>) }

RuleTexts ==
    LeftTexts \cup RightTexts \cup CompactATexts \cup CompactBTexts
    \cup LongTexts

\* the configuration of the text `> m m`, m the motif of block b: the motif
\* is read twice from the right tape
TwiceMotifB == Conf(<<>>, Reverse(MotifB \o MotifB), Right, 0)

RuleConfs == { from_str(t).conf : t \in RuleTexts } \cup {TwiceMotifB}

InitRules ==
    /\ \E c \in RuleConfs :
        /\ IsLive(c)
        /\ start = c
        /\ entry = c
        /\ lastok = c
        /\ before = c
    /\ \E b \in {1, MaxSteps} :
        plan = [b1 |-> b, b |-> b, pm |-> <<0, 63>>]
    /\ cfg = Config(0, 0)
    /\ pc = "idle"
    /\ ret = "Ok"
    /\ printed = 0
    /\ applied = 0
    /\ phase = 1
    /\ first = [conf |-> NoConf, ret |-> "Ok"]
    /\ text = <<>>
    /\ shown = <<>>
    /\ snapshot = NoConf
    /\ origin = ""
    /\ tapeA = <<>>
    /\ tapeB = <<>>
    /\ NoTui

NextRules == Call \/ RunStep \/ RunErr \/ RunLimit

SpecRules == InitRules /\ [][NextRules]_vars

\* the last applied arm took `before` to `lastok`
Stepped == pc \in {"run", "returned"} /\ applied >= 1

(***************************************************************************)
(* Properties of single arms.                                              *)
(***************************************************************************)
\* C12: an arm applied with direction Left to a left tape ending in C(c),
\* c in {0, 1, 2}, replaces it by C(c + 1), appends X(1) exactly when c was
\* 0 or 2, sets the direction to Right and leaves the right tape alone; with
\* C(3) the item moves to the right tape as it is and the direction stays
\* Left.
C12_CounterIncrement ==
    LET c == At(before.ltape, 1).a
        rest == Truncate(before.ltape, 1)
    IN  (Stepped /\ before.dir = Left /\ At(before.ltape, 1).k = "C") =>
            /\ c \in {0, 2} =>
                /\ lastok.ltape = rest \o <<C(c + 1), X(1)>>
                /\ lastok.dir = Right
                /\ lastok.rtape = before.rtape
            /\ c = 1 =>
                /\ lastok.ltape = Append(rest, C(2))
                /\ lastok.dir = Right
                /\ lastok.rtape = before.rtape
            /\ c = 3 =>
                /\ lastok.ltape = rest
                /\ lastok.rtape = Append(before.rtape, C(3))
                /\ lastok.dir = Left

C12_Witness ==
    /\ Stepped
    /\ before.dir = Left
    /\ At(before.ltape, 1) = C(1)
    /\ Len(before.ltape) >= 2
    /\ before.rtape # <<>>
    /\ applied >= 2

\* the Block items of a tape, in order
BlocksOf(tape) == SelectSeq(tape, LAMBDA item : item.k = "E")

\* the motif at the end of the tape replaced by a Block of the given id, or
\* counted into the Block of that id below it
Folded(tape, motif, id) ==
    LET rest == SubSeq(tape, 1, Len(tape) - Len(motif))
    IN  IF rest # <<>> /\ rest[Len(rest)].k = "E" /\ rest[Len(rest)].a = id
        THEN [rest EXCEPT ![Len(rest)].b = @ + 1]
        ELSE Append(rest, E(id, 1))

\* the left tape after the rewrite of `x^n > 3` without the 0: x^(n-1)
AfterRunA(c) ==
    LET n == At(c.ltape, 1).a
    IN  IF n = 1 THEN Truncate(c.ltape, 1)
        ELSE Append(Truncate(c.ltape, 1), X(n - 1))

\* the left tape after the rewrite of `> x^n`: the run moved and merged
AfterRunB(c) ==
    LET n == At(c.rtape, 1).a
        last == At(c.ltape, 1)
    IN  IF last.k = "X"
        THEN Append(Truncate(c.ltape, 1), X(last.a + n))
        ELSE Append(c.ltape, X(n))

\* the run at the end of the tape has the exponent of the motif and the tape
\* ends in the motif
MotifComplete(tape, motif) ==
    /\ At(tape, 1) = motif[Len(motif)]
    /\ EndsWith(tape, motif)

\* C13: the arm `x > 3` folds the motif of block a, and the arm `> x` the
\* motif of block b, exactly when after the rewrite of the run the left tape
\* ends in a run of the exponent of the motif (10344, 30826) and in the motif;
\* otherwise the arm leaves the Block items of both tapes as they are.
C13_CompactionGuard ==
    /\ (Stepped /\ before.dir = Right /\ IsX(At(before.ltape, 1))
          /\ At(before.rtape, 1) = C(3)) =>
        IF MotifComplete(AfterRunA(before), MotifA)
        THEN lastok.ltape = Append(Folded(AfterRunA(before), MotifA, 0), C(0))
        ELSE /\ lastok.ltape = Append(AfterRunA(before), C(0))
             /\ BlocksOf(lastok.ltape) = BlocksOf(before.ltape)
             /\ BlocksOf(lastok.rtape) = BlocksOf(before.rtape)
    /\ (Stepped /\ before.dir = Right /\ IsX(At(before.rtape, 1))) =>
        IF MotifComplete(AfterRunB(before), MotifB)
        THEN lastok.ltape = Folded(AfterRunB(before), MotifB, 1)
        ELSE /\ lastok.ltape = AfterRunB(before)
             /\ BlocksOf(lastok.ltape) = BlocksOf(before.ltape)
             /\ BlocksOf(lastok.rtape) = BlocksOf(before.rtape)

\* the guard of the compaction of block a holds: `x^10345 > 3` above the
\* rest of the motif
FiresA(c) ==
    /\ c.dir = Right
    /\ At(c.ltape, 1) = X(10345)
    /\ At(c.rtape, 1) = C(3)
    /\ EndsWith(Truncate(c.ltape, 1), <<C(2), X(7640), D>>)

\* the guard of the compaction of block b holds: `> x^30826` next to the
\* rest of the motif
FiresB(c) ==
    /\ c.dir = Right
    /\ At(c.rtape, 1) = X(30826)
    /\ EndsWith(c.ltape, <<D, X(72142), D, X(3076), D, X(1538), D, X(300), D>>)

\* the tape with one more repetition of the Block of the given id at its end
Counted(rest, id) ==
    IF At(rest, 1).k = "E" /\ At(rest, 1).a = id
    THEN Append(Truncate(rest, 1), E(id, At(rest, 1).b + 1))
    ELSE Append(rest, E(id, 1))

\* no two adjacent Block items of one id
NoAdjacentBlocks(tape) ==
    \A i \in 1..(Len(tape) - 1) :
        ~(tape[i].k = "E" /\ tape[i + 1].k = "E" /\ tape[i].a = tape[i + 1].a)

\* C14: a compaction that fires removes the items of the motif from the left
\* tape (the 4 of block a with the run that loses one x, the 9 of block b
\* already there with the run that arrives) and counts one repetition into
\* the Block of that id at the end of what is left, or appends a new Block
\* with exp 1; it makes no two adjacent Blocks of one id, and the motif of
\* block b read twice leaves the single item b^2.
C14_CompactionEffect ==
    /\ (Stepped /\ FiresA(before)) =>
        /\ lastok.ltape = Append(Counted(Truncate(before.ltape, 4), 0), C(0))
        /\ ~EndsWith(Truncate(lastok.ltape, 1), MotifA)
        /\ NoAdjacentBlocks(before.ltape) => NoAdjacentBlocks(lastok.ltape)
    /\ (Stepped /\ FiresB(before)) =>
        /\ lastok.ltape = Counted(Truncate(before.ltape, 9), 1)
        /\ ~EndsWith(lastok.ltape, MotifB)
        /\ NoAdjacentBlocks(before.ltape) => NoAdjacentBlocks(lastok.ltape)
    /\ (start = TwiceMotifB /\ pc \in {"run", "returned"}
          /\ applied = 2 * Len(MotifB)) =>
        (ltape = <<E(1, 2)>> /\ rtape = <<>>)

\* the second of two successive compactions of the motif of block b
C14_Witness ==
    /\ Stepped
    /\ FiresB(before)
    /\ applied = 2 * Len(MotifB)
    /\ before.ltape[1] = E(1, 1)
    /\ lastok.ltape = <<E(1, 2)>>

\* C15: a Block a, b or c that the arms have placed (the start configuration
\* holds no Block) and that is head-adjacent on the left tape with direction
\* Left moves to the right tape as it is or is expanded by one repetition;
\* run does not return UnknownTransition on it.
C15_BlocksHandled ==
    (BlocksOf(start.ltape) = <<>> /\ BlocksOf(start.rtape) = <<>>) =>
        /\ (pc = "returned" /\ ret = "UnknownTransition") =>
            ~(dir = Left /\ At(ltape, 1).k = "E" /\ At(ltape, 1).a \in {0, 1, 2})
        /\ (Stepped /\ before.dir = Left /\ At(before.ltape, 1).k = "E"
              /\ At(before.ltape, 1).a \in {0, 1, 2}) =>
            \/ /\ lastok.rtape = Append(before.rtape, At(before.ltape, 1))
               /\ lastok.ltape = Truncate(before.ltape, 1)
            \/ /\ lastok.rtape = before.rtape
               /\ Len(lastok.ltape) > Len(before.ltape)

\* C16: an arm applied with direction Right to a right tape ending in a
\* Block b^n with P above it (P head-adjacent) appends c^n to the left tape,
\* takes the Block off the right tape and leaves P head-adjacent there, the
\* direction still Right.
C16_PivotBlock ==
    (Stepped /\ before.dir = Right /\ At(before.rtape, 1) = P
       /\ At(before.rtape, 2).k = "E" /\ At(before.rtape, 2).a = 1) =>
        /\ lastok.ltape = Append(before.ltape, E(2, At(before.rtape, 2).b))
        /\ lastok.rtape = Append(Truncate(before.rtape, 2), P)
        /\ lastok.dir = Right

\* one repetition of block c written out:
\* `1D x^72141 1D x^3075 1D x^1537 1D x^299 1D x^30825`
RepetitionOfC ==
    <<C(1), D, X(72141)>> \o <<C(1), D, X(3075)>> \o <<C(1), D, X(1537)>>
    \o <<C(1), D, X(299)>> \o <<C(1), D, X(30825)>>

\* C17: an arm applied with direction Left to a left tape ending in a Block
\* c^n, n >= 1, leaves c^(n-1) in its place (nothing when n = 1) and appends
\* the 15 items of one repetition of c; the direction stays Left and the
\* right tape is unchanged.
C17_BlockExpansion ==
    LET n == At(before.ltape, 1).b
        rest == Truncate(before.ltape, 1)
    IN  (Stepped /\ before.dir = Left /\ At(before.ltape, 1).k = "E"
           /\ At(before.ltape, 1).a = 2 /\ n >= 1) =>
            /\ Len(RepetitionOfC) = 15
            /\ lastok.ltape =
                (IF n = 1 THEN rest ELSE Append(rest, E(2, n - 1)))
                \o RepetitionOfC
            /\ Len(BlocksOf(lastok.ltape)) =
                Len(BlocksOf(before.ltape)) - (IF n = 1 THEN 1 ELSE 0)
            /\ lastok.dir = Left
            /\ lastok.rtape = before.rtape

\* the Block c^3 made by the arm `> P b` is expanded later in the run
C17_Witness ==
    /\ Stepped
    /\ before.dir = Left
    /\ At(before.ltape, 1) = E(2, 3)
    /\ applied >= 3
    /\ before.rtape # <<>>
    /\ BlocksOf(start.ltape) = <<>>

\* the left tape with a run of n more x at its end
WithRun(tape, n) ==
    IF At(tape, 1).k = "X"
    THEN Append(Truncate(tape, 1), X(At(tape, 1).a + n))
    ELSE Append(tape, X(n))

\* C18 as stated: an arm applied with direction Right to a right tape ending
\* in X(n) with P above it (P head-adjacent) moves the run to the left tape,
\* merged with a run at its end, keeps P head-adjacent on the right tape and
\* flips the direction.
C18_Original ==
    (Stepped /\ before.dir = Right /\ At(before.rtape, 1) = P
       /\ IsX(At(before.rtape, 2))) =>
        /\ lastok.ltape = WithRun(before.ltape, At(before.rtape, 2).a)
        /\ lastok.rtape = Append(Truncate(before.rtape, 2), P)
        /\ lastok.dir = Left

\* C18 as amended: the same, but the direction stays Right.
C18_PivotRunFold ==
    (Stepped /\ before.dir = Right /\ At(before.rtape, 1) = P
       /\ IsX(At(before.rtape, 2))) =>
        /\ lastok.ltape = WithRun(before.ltape, At(before.rtape, 2).a)
        /\ lastok.rtape = Append(Truncate(before.rtape, 2), P)
        /\ lastok.dir = Right

\* the run x^4 behind the Pivot merges with the x^2 of the left tape
C18_Witness ==
    /\ Stepped
    /\ before.dir = Right
    /\ At(before.rtape, 1) = P
    /\ At(before.rtape, 2) = X(4)
    /\ At(before.ltape, 1) = X(2)
    /\ Len(before.rtape) >= 3
    /\ At(lastok.ltape, 1) = X(6)

\* what replaces L(code) at the end of the left tape, for the codes whose
\* link does not look below the item
LinkOf(code) ==
    CASE code = 2332 -> <<L(2301), X(1)>>
      [] code = 2301 -> <<L(252)>>
      [] code = 252 -> <<P, D, X(1)>>
      [] code = 432 -> <<L(401), X(1)>>
      [] code = 401 -> <<L(62)>>
      [] code = 62 -> <<L(31), X(1)>>

\* C19: an arm applied with direction Left to a left tape ending in L(code)
\* rewrites that item only: 2332 -> 2301 x, 2301 -> 252, 252 -> P D x,
\* 432 -> 401 x, 401 -> 62, 62 -> 31 x, and x^n 31 -> x^(n-1) P 1 D (no run
\* left when n = 1); it sets the direction to Right and leaves the right tape
\* and the rest of the left tape as they are.
C19_ReductionChain ==
    LET code == At(before.ltape, 1).a
        n == At(before.ltape, 2).a
        rest == Truncate(before.ltape, 1)
        below == Truncate(before.ltape, 2)
    IN  /\ (Stepped /\ before.dir = Left /\ At(before.ltape, 1).k = "L"
              /\ code \in {2332, 2301, 252, 432, 401, 62}) =>
            /\ lastok.ltape = rest \o LinkOf(code)
            /\ lastok.dir = Right
            /\ lastok.rtape = before.rtape
        /\ (Stepped /\ before.dir = Left /\ At(before.ltape, 1) = L(31)
              /\ IsX(At(before.ltape, 2)) /\ n >= 1) =>
            /\ lastok.ltape =
                (IF n = 1 THEN below ELSE Append(below, X(n - 1)))
                \o <<P, C(1), D>>
            /\ lastok.dir = Right
            /\ lastok.rtape = before.rtape

\* the third link of a chain that started with L(2332)
C19_Witness ==
    /\ Stepped
    /\ before.dir = Left
    /\ At(before.ltape, 1) = L(252)
    /\ At(start.ltape, 1) = L(2332)
    /\ applied >= 5
    /\ Len(before.ltape) >= 2
    /\ before.rtape # <<>>

\* C20: an arm applied with direction Right to a right tape whose
\* head-adjacent item is D takes D and the two C(3) behind it off the right
\* tape and appends P, C(0) to the left tape if the next two items are C(3);
\* else takes D and the C(3) behind it and appends a merged X(1) and P if the
\* next item is C(3); else moves D alone to the left tape.  The direction
\* stays Right in the three cases.
C20_DelimOrder ==
    LET r2 == At(before.rtape, 2)
        r3 == At(before.rtape, 3)
    IN  (Stepped /\ before.dir = Right /\ At(before.rtape, 1) = D) =>
            /\ lastok.dir = Right
            /\ IF r2 = C(3) /\ r3 = C(3)
               THEN /\ lastok.rtape = Truncate(before.rtape, 3)
                    /\ lastok.ltape = before.ltape \o <<P, C(0)>>
               ELSE IF r2 = C(3)
               THEN /\ lastok.rtape = Truncate(before.rtape, 2)
                    /\ lastok.ltape = Append(WithRun(before.ltape, 1), P)
               ELSE /\ lastok.rtape = Truncate(before.rtape, 1)
                    /\ lastok.ltape = Append(before.ltape, D)

\* `> D33` with more of the right tape behind it and a run on the left tape
C20_Witness ==
    /\ Stepped
    /\ before.dir = Right
    /\ At(before.rtape, 1) = D
    /\ At(before.rtape, 2) = C(3)
    /\ At(before.rtape, 3) = C(3)
    /\ Len(before.rtape) >= 4
    /\ IsX(At(before.ltape, 1))

(***************************************************************************)
(* tui(): the loop draws the state and the configuration, reads a key and  *)
(* handles it.  `j` calls run for 2^speed more steps and keeps a clone of  *)
(* the result in the history, `k` takes the newest entry of the history    *)
(* back, `h` and `l` change the speed, `q` leaves the loop.                *)
(***************************************************************************)
\* the largest number of keys handled
MaxKeys == 5

\* `history.len() > 1_000_000`
HistoryCap == 1000000

\* `(speed + 1).min(30)`
SpeedMax == 30

\* the guard of the arm of `j`: state.is_ok() || state.contains_err(StepLimit)
CanStepAlways(st) == TRUE

CanStep(st) == st = "Ok" \/ st = "StepLimit"

\* what the top of the loop draws
Screen(st, c) == [state |-> st, conf |-> c]

\* the loop reads a key
ReadKey(key) ==
    /\ pc = "tui"
    /\ Len(keys) < MaxKeys
    /\ keys' = Append(keys, key)

\* Key::Char('j') with its guard true, up to the call of run
KeyJ ==
    /\ ReadKey("j")
    /\ CanStep(state)
    /\ Enter(Config(sim_step + 2 ^ speed, 63))
    /\ UNCHANGED <<start, phase, plan, first, state, history, speed, screens,
                   codecVars, tapeVars>>

\* Key::Char('j') after the call of run, and the next drawing
JReturn ==
    /\ pc = "returned"
    /\ state' = ret
    /\ history' = <<[speed |-> speed, state |-> ret, conf |-> Live]>>
                  \o (IF Len(history) > HistoryCap
                      THEN SubSeq(history, 1, Len(history) - 1)
                      ELSE history)
    /\ screens' = Append(screens, Screen(ret, Live))
    /\ pc' = "tui"
    /\ UNCHANGED <<confVars, runVars, start, phase, plan, first, speed, keys,
                   codecVars, tapeVars>>

\* Key::Char('k')
KeyK ==
    /\ ReadKey("k")
    /\ IF history # <<>>
       THEN /\ state' = Head(history).state
            /\ SetLive(Head(history).conf)
            /\ history' = Tail(history)
            /\ screens' = Append(screens, Screen(Head(history).state,
                                                 Head(history).conf))
       ELSE /\ UNCHANGED <<state, confVars, history>>
            /\ screens' = Append(screens, Screen(state, Live))
    /\ UNCHANGED <<runVars, start, phase, plan, first, speed, pc, codecVars,
                   tapeVars>>

\* Key::Char('h'): speed.saturating_sub(1)
KeyH ==
    /\ ReadKey("h")
    /\ speed' = IF speed = 0 THEN 0 ELSE speed - 1
    /\ screens' = Append(screens, Screen(state, Live))
    /\ UNCHANGED <<confVars, runVars, start, phase, plan, first, state, history,
                   pc, codecVars, tapeVars>>

\* Key::Char('l'): (speed + 1).min(30)
KeyL ==
    /\ ReadKey("l")
    /\ speed' = IF speed + 1 > SpeedMax THEN SpeedMax ELSE speed + 1
    /\ screens' = Append(screens, Screen(state, Live))
    /\ UNCHANGED <<confVars, runVars, start, phase, plan, first, state, history,
                   pc, codecVars, tapeVars>>

\* `_ => {}`: `j` with its guard false (any other key does the same)
KeyIgnored ==
    /\ ReadKey("j")
    /\ ~CanStep(state)
    /\ screens' = Append(screens, Screen(state, Live))
    /\ UNCHANGED <<confVars, runVars, start, phase, plan, first, state, history,
                   speed, pc, codecVars, tapeVars>>

\* Key::Char('q') => break
KeyQ ==
    /\ ReadKey("q")
    /\ pc' = "quit"
    /\ UNCHANGED <<confVars, runVars, start, phase, plan, first, state, history,
                   speed, screens, codecVars, tapeVars>>

\* the configurations tui is entered with: Configuration::new() and a few
\* --conf texts
TuiTexts ==
    { Join(<<<<"1">>, <<">">>, <<"P">>>>),
      Join(<<<<">">>, <<"D">>>>),
      Join(<<<<"x">>, <<">">>, <<"D">>, <<"!">>>>),
      Join(<<<<"0">>, <<"<">>, <<"P">>, <<"x">>>>) }

TuiConfs == {New} \cup { from_str(t).conf : t \in TuiTexts }

\* tui is entered from main and has drawn its first screen
InitTui ==
    /\ \E c \in TuiConfs :
        /\ IsLive(c)
        /\ start = c
        /\ entry = c
        /\ lastok = c
        /\ before = c
        /\ screens = <<Screen("Ok", c)>>
    /\ speed \in {0, 1}
    /\ state = "Ok"
    /\ history = <<>>
    /\ keys = <<>>
    /\ plan = [b1 |-> 0, b |-> 0, pm |-> <<63, 63>>]
    /\ cfg = Config(0, 63)
    /\ pc = "tui"
    /\ ret = "Ok"
    /\ printed = 0
    /\ applied = 0
    /\ phase = 1
    /\ first = [conf |-> NoConf, ret |-> "Ok"]
    /\ text = <<>>
    /\ shown = <<>>
    /\ snapshot = NoConf
    /\ origin = ""
    /\ tapeA = <<>>
    /\ tapeB = <<>>

NextTui ==
    \/ KeyJ \/ RunStep \/ RunErr \/ RunLimit \/ JReturn
    \/ KeyK \/ KeyH \/ KeyL \/ KeyIgnored \/ KeyQ

SpecTui == InitTui /\ [][NextTui]_vars

(***************************************************************************)
(* Properties of tui.                                                      *)
(***************************************************************************)
\* C21: a press of `j` calls run exactly when the state drawn is Ok or
\* StepLimit, whatever keys came before (so also after `k` has taken back an
\* entry whose state was StepLimit); with the state UnknownTransition or
\* Unreachable the press calls nothing and leaves the state and the
\* configuration as they are.
C21_StopRule ==
    [][ /\ (pc = "tui" /\ pc' = "run") =>
            (state \in {"Ok", "StepLimit"} /\ keys' = Append(keys, "j"))
        /\ (pc = "tui" /\ keys' = Append(keys, "j")
              /\ state \in {"Ok", "StepLimit"}) =>
            (pc' = "run" /\ cfg'.sim_step_limit > sim_step
               /\ UNCHANGED confVars)
        /\ (pc = "tui" /\ keys' = Append(keys, "j") /\ state \in Failures) =>
            (pc' = "tui" /\ UNCHANGED <<confVars, state, history, runVars>>)
      ]_vars

\* `j j k k j`: the second call fails, two `k` take back the entry of the
\* first call, whose state was StepLimit, and the last `j` calls run again
C21_Witness ==
    /\ keys = <<"j", "j", "k", "k", "j">>
    /\ pc = "run"
    /\ screens[3].state \in Failures
    /\ screens[5].state = "StepLimit"

\* C22: when `k` is handled directly after a `j` that called run, the state
\* and the configuration drawn next are the ones drawn before that `j`; and
\* after n presses of `j` followed by n presses of `k` the configuration
\* drawn is the one tui started with.
C22_Rewind ==
    /\ \A i \in 1..(Len(screens) - 2) :
        (keys[i] = "j" /\ CanStep(screens[i].state) /\ keys[i + 1] = "k") =>
            screens[i + 2] = screens[i]
    /\ \A n \in 1..MaxKeys :
        (Len(screens) = 2 * n + 1
           /\ (\A i \in 1..n : keys[i] = "j" /\ CanStep(screens[i].state))
           /\ (\A i \in (n + 1)..(2 * n) : keys[i] = "k")) =>
            screens[2 * n + 1].conf = start

(***************************************************************************)
(* The counts of the X and E items.                                        *)
(***************************************************************************)
\* the item whose count the arm applied to c decrements (`*exp -= 1` in
\* pop_x_truncate and in the arm of block c), NoItem if the arm has none
DecrementedItem(c) ==
    LET arm == Arm(c)
    IN  IF arm \in {"XRightEnd", "XRight3", "CLeft"} THEN At(c.ltape, 1)
        ELSE IF arm = "XL31" THEN At(c.ltape, 2)
        ELSE IF arm = "EndLeft3x" THEN At(c.rtape, 2)
        ELSE IF arm \in {"RightPDx", "RightP3x"} THEN At(c.rtape, 3)
        ELSE IF arm \in {"RightPD3x", "RightPDDx"} THEN At(c.rtape, 4)
        ELSE NoItem

\* the count of an X or E item, 1 for the items that have none
CountOf(item) ==
    IF item.k = "X" THEN item.a ELSE IF item.k = "E" THEN item.b ELSE 1

\* every X and E item of both tapes has a count of at least 1
Positive(c) ==
    /\ \A i \in 1..Len(c.ltape) : CountOf(c.ltape[i]) >= 1
    /\ \A i \in 1..Len(c.rtape) : CountOf(c.rtape[i]) >= 1

\* C23: if every X and E item of the start configuration has a count of at
\* least 1, so has every item of every configuration run reaches, and the
\* item an arm decrements has a count of at least 1 when the arm is applied.
C23_PositiveExponents ==
    Positive(start) =>
        /\ Positive(Live)
        /\ pc = "run" => CountOf(DecrementedItem(Live)) >= 1
        /\ Stepped => CountOf(DecrementedItem(before)) >= 1

\* a run x^1 below L(31) is decremented to 0 and removed, later in a run
C23_Witness ==
    /\ Stepped
    /\ Positive(start)
    /\ Arm(before) = "XL31"
    /\ DecrementedItem(before) = X(1)
    /\ applied >= 2
    /\ Len(lastok.ltape) = Len(before.ltape) + 1

====
